---- MODULE Spec2Model ----
(***************************************************************************)
(* The display-technology classification engine of build_schema.py:        *)
(* build_schema() merges the scraper table (tv_df) with the spectral       *)
(* analysis table (spd_df) and derives the schema columns stage by stage.  *)
(* Each statement group of build_schema() is one action; pc is the         *)
(* position of the run inside build_schema().                              *)
(*                                                                         *)
(* A DataFrame is a sequence of rows, a row a function from column names   *)
(* to cell values.  Cell values are the values pandas holds after          *)
(* read_csv: a string column holds non-empty strings or NaN (an empty      *)
(* cell), a numeric column holds floats or NaN, and a numeric column with  *)
(* an unparseable cell is an object column of strings and NaN.             *)
(***************************************************************************)
EXTENDS Integers, Sequences, FiniteSets, TLC

(***************************************************************************)
(* Bounds of the model.                                                    *)
(***************************************************************************)
MaxTvRows == 2
MaxSpdRows == 2
MaxProductId == 2

(***************************************************************************)
(* Cell values.                                                            *)
(***************************************************************************)
\* float('nan') in a string (object) column: an empty cell, or a left-join miss.
NaN == "NaN"
\* Python None, as returned by map_backlight_type and determine_qd_material.
None == "None"
\* pandas.NA of the nullable Int64 column.
NA == [na |-> TRUE, v |-> 0]
IntCell(n) == [na |-> FALSE, v |-> n]

\* A cell of a numeric column.  Numbers are held in tenths (25.0 is 250).
NumNaN == [t |-> "nan", v |-> 0, s |-> ""]
Float(tenths) == [t |-> "float", v |-> tenths, s |-> ""]
Str(s) == [t |-> "str", v |-> 0, s |-> s]

IsNull(x) == x \in {NaN, None}

(***************************************************************************)
(* Python string primitives.                                               *)
(***************************************************************************)
\* pat in name
Contains(name, pat) ==
    \E i \in 1..(Len(name) - Len(pat) + 1) : SubSeq(name, i, i + Len(pat) - 1) = pat

\* name.startswith(pat)
StartsWith(name, pat) ==
    /\ Len(name) >= Len(pat)
    /\ SubSeq(name, 1, Len(pat)) = pat

\* str(x) of a cell of a string column: str(float('nan')) is 'nan'.
PyStr(x) == IF x = NaN THEN "nan" ELSE x

\* bool(x) of a cell of a string column: only the empty string is falsy;
\* float('nan') is a non-zero float and so truthy.
Truthy(x) == IF x = NaN THEN TRUE ELSE x # ""

Digits == <<"0", "1", "2", "3", "4", "5", "6", "7", "8", "9">>
IsDigit(c) == \E d \in 1..10 : Digits[d] = c
DigitVal(c) == (CHOOSE d \in 1..10 : Digits[d] = c) - 1
CharAt(s, i) == SubSeq(s, i, i)

RECURSIVE DigitsValue(_, _, _)
\* The value of the decimal digits s[i..j].
DigitsValue(s, i, j) ==
    IF j < i THEN 0 ELSE DigitsValue(s, i, j - 1) * 10 + DigitVal(CharAt(s, j))

AllDigits(s, i, j) == \A k \in i..j : IsDigit(CharAt(s, k))

\* The position of the decimal point of s, Len(s) + 1 when it has none.
DotPos(s) ==
    IF \E i \in 1..Len(s) : CharAt(s, i) = "."
    THEN CHOOSE i \in 1..Len(s) :
             /\ CharAt(s, i) = "."
             /\ \A k \in 1..(i - 1) : CharAt(s, k) # "."
    ELSE Len(s) + 1

\* Whether float(s) accepts the string s: digits with an optional fraction
\* (the decimal notation of the CSV files; anything else is a ValueError).
Parseable(s) ==
    /\ DotPos(s) > 1
    /\ AllDigits(s, 1, DotPos(s) - 1)
    /\ AllDigits(s, DotPos(s) + 1, Len(s))

\* float(s) in tenths, for a parseable s.
ParseTenths(s) ==
    DigitsValue(s, 1, DotPos(s) - 1) * 10
        + (IF DotPos(s) < Len(s) THEN DigitVal(CharAt(s, DotPos(s) + 1)) ELSE 0)

\* float(x) of a cell of a numeric column: does it raise ValueError/TypeError?
FloatRaises(x) == x.t = "str" /\ ~Parseable(x.s)

\* float(x) when it does not raise: a float stays itself, nan stays nan,
\* a string is parsed.
PyFloat(x) == IF x.t = "str" THEN Float(ParseTenths(x.s)) ELSE x

(***************************************************************************)
(* DataFrame primitives.                                                   *)
(***************************************************************************)
\* row[col] = val: the row with column col added or overwritten.
WithCol(row, col, val) == (col :> val) @@ row

SeqToSet(s) == {s[i] : i \in DOMAIN s}

\* df[col] and row[col] raise KeyError when the table has no column col.
KeyError(df, cols) == \E i \in DOMAIN df : ~(cols \subseteq DOMAIN df[i])

\* The table without the columns of D.
DropCols(df, D) == [i \in DOMAIN df |-> [c \in DOMAIN df[i] \ D |-> df[i][c]]]

(***************************************************************************)
(* Loading and merging (build_schema, lines 178-190).                      *)
(***************************************************************************)
spd_cols ==
    <<"product_id", "spd_classification", "spd_confidence",
      "ground_truth_tech", "ground_truth_qd_type", "match_status",
      "blue_peak_nm", "blue_fwhm_nm", "green_peak_nm", "green_fwhm_nm",
      "red_peak_nm", "red_fwhm_nm", "num_peaks">>

\* The spectral columns that hold numbers.
spd_numeric_cols ==
    {"blue_peak_nm", "blue_fwhm_nm", "green_peak_nm", "green_fwhm_nm",
     "red_peak_nm", "red_fwhm_nm", "num_peaks"}

\* The null a left join puts into column c of a row without a match.
NullOf(c) == IF c \in spd_numeric_cols THEN NumNaN ELSE NaN

\* spd_df[spd_cols] restricted to one row, without the join key.
SpdPart(p) == [c \in SeqToSet(spd_cols) \ {"product_id"} |-> p[c]]

NullSpdPart == [c \in SeqToSet(spd_cols) \ {"product_id"} |-> NullOf(c)]

\* Mutant: a one-to-one join that keeps only the first matching right row.
MergeRow_first_match(t, spd) ==
    LET m == SelectSeq(spd, LAMBDA p : p.product_id = t.product_id)
    IN  IF m = <<>> THEN <<t @@ NullSpdPart>> ELSE <<t @@ SpdPart(m[1])>>

\* The rows a left join makes of one left row: one per matching right row,
\* in the right table's order; a single null-filled row when none matches.
MergeRow(t, spd) ==
    LET m == SelectSeq(spd, LAMBDA p : p.product_id = t.product_id)
    IN  IF m = <<>>
        THEN <<t @@ NullSpdPart>>
        ELSE [j \in 1..Len(m) |-> t @@ SpdPart(m[j])]

RECURSIVE LeftMerge(_, _)
\* tv.merge(spd[spd_cols], on='product_id', how='left')
LeftMerge(tv, spd) ==
    IF tv = <<>> THEN <<>>
    ELSE MergeRow(Head(tv), spd) \o LeftMerge(Tail(tv), spd)

(***************************************************************************)
(* Columns 1, 2, 2b: display_type, backlight_type, dimming_zone_count.     *)
(***************************************************************************)
\* Series.map({'OLED': 'OLED', 'LCD': 'LCD'}): a value that is no key maps to NaN.
PanelMap(x) == IF x \in {"OLED", "LCD"} THEN x ELSE NaN

\* Series.fillna(d)
Fillna(x, d) == IF x = NaN THEN d ELSE x

\* Mutant: the map without its .fillna('LCD').
display_type_no_fillna(row) == PanelMap(row.panel_type)

display_type(row) == Fillna(PanelMap(row.panel_type), "LCD")

\* mapping.get(rtings_value, rtings_value)
BacklightMapping(rtings_value) ==
    CASE rtings_value = "Full-Array" -> "Direct-lit"
      [] rtings_value = "Direct" -> "Direct-lit"
      [] rtings_value = "Edge" -> "Edge-lit"
      [] rtings_value = "No Backlight" -> None
      [] OTHER -> rtings_value

\* Mutant: the OLED test is missing.
map_backlight_type_no_oled(rtings_value, panel_type) == BacklightMapping(rtings_value)

map_backlight_type(rtings_value, panel_type) ==
    IF panel_type = "OLED" THEN None ELSE BacklightMapping(rtings_value)

\* pd.to_numeric(x, errors='coerce') of one cell.
ToNumeric(x) ==
    IF x.t = "str"
    THEN IF Parseable(x.s) THEN Float(ParseTenths(x.s)) ELSE NumNaN
    ELSE x

\* .astype('Int64') raises on a float that is no whole number.
AstypeInt64Raises(x) == x.t = "float" /\ x.v % 10 # 0

\* .astype('Int64') of one cell of a float column.
AstypeInt64(x) == IF x.t = "nan" THEN NA ELSE IntCell(x.v \div 10)

dimming_zone_count(row) == AstypeInt64(ToNumeric(row.dimming_zone_count))

(***************************************************************************)
(* Column 7: marketing_label (determine_marketing_label).                  *)
(***************************************************************************)
\* The brands whose branch of determine_marketing_label tests the name
\* before it can return.
NameTestingBrands ==
    {"Samsung", "LG", "Hisense", "TCL", "Panasonic", "Sharp", "Philips"}

\* determine_marketing_label raises TypeError when it applies `in` to a
\* fullname that is NaN (a float).
MarketingLabelRaises(row) ==
    /\ row.fullname = NaN
    /\ \/ row.brand \in NameTestingBrands
       \/ row.brand = "Sony" /\ row.color_architecture # "QD-OLED"

SamsungLabel(name, color_arch) ==
    IF Contains(name, "QN9") \/ Contains(name, "QN8") \/ Contains(name, "QN7")
    THEN "Neo QLED"
    ELSE IF StartsWith(name, "Samsung Q") /\ ~Contains(name, "OLED") THEN "QLED"
    ELSE IF Contains(name, "S95") \/ Contains(name, "S90") THEN "QD-OLED"
    ELSE IF Contains(name, "S85") /\ Contains(name, "OLED")
    THEN IF color_arch = "QD-OLED" THEN "QD-OLED" ELSE "Samsung OLED"
    ELSE IF Contains(name, "Frame")
    THEN IF Contains(name, "Pro") THEN "Neo QLED" ELSE "QLED"
    ELSE IF Contains(name, "DU") \/ Contains(name, "U7") \/ Contains(name, "U8")
    THEN "Crystal UHD"
    ELSE ""

LGLabel(name) ==
    IF Contains(name, "OLED")
    THEN IF Contains(name, "G4") \/ Contains(name, "G5") THEN "OLED evo" ELSE "OLED"
    ELSE IF Contains(name, "QNED") THEN "QNED"
    ELSE IF Contains(name, "UT") \/ Contains(name, "UA") THEN "UHD"
    ELSE ""

\* Mutant: the OLED test reads the classification instead of the name.
SonyLabel_woled(name, color_arch) ==
    IF color_arch = "QD-OLED" THEN "QD-OLED"
    ELSE IF color_arch = "WOLED" THEN "OLED"
    ELSE "BRAVIA"

SonyLabel(name, color_arch) ==
    IF color_arch = "QD-OLED" THEN "QD-OLED"
    ELSE IF Contains(name, "OLED") THEN "OLED"
    ELSE "BRAVIA"

\* Mutant: the QLED branch does not know the architecture 'Pseudo QD'.
HisenseLabel_without_pseudo(name, color_arch) ==
    IF color_arch \in {"QD-LCD", "KSF"}
    THEN IF Contains(name, "U8") \/ Contains(name, "U9") THEN "ULED" ELSE "QLED"
    ELSE IF Contains(name, "Canvas") THEN "CanvasTV"
    ELSE "ULED"

HisenseLabel(name, color_arch) ==
    IF color_arch \in {"QD-LCD", "KSF", "Pseudo QD"}
    THEN IF Contains(name, "U8") \/ Contains(name, "U9") THEN "ULED" ELSE "QLED"
    ELSE IF Contains(name, "Canvas") THEN "CanvasTV"
    ELSE "ULED"

TCLLabel(name) ==
    IF Contains(name, "QM") \/ Contains(name, "Q7") \/ Contains(name, "Q6")
    THEN "QLED" ELSE ""

\* The branch shared by Panasonic and Philips.
OledOrEmpty(name) == IF Contains(name, "OLED") THEN "OLED" ELSE ""

SharpLabel(name) == IF Contains(name, "XLED") THEN "XLED" ELSE ""

\* determine_marketing_label(row) when it does not raise.  A brand branch of
\* Samsung or LG that matches no pattern falls through to the final return ''.
determine_marketing_label(row) ==
    LET name == row.fullname
        brand == row.brand
        color_arch == row.color_architecture
    IN  CASE brand = "Samsung" -> SamsungLabel(name, color_arch)
          [] brand = "LG" -> LGLabel(name)
          [] brand = "Sony" -> SonyLabel(name, color_arch)
          [] brand = "Hisense" -> HisenseLabel(name, color_arch)
          [] brand = "TCL" -> TCLLabel(name)
          [] brand = "Panasonic" -> OledOrEmpty(name)
          [] brand = "Roku" -> ""
          [] brand = "Sharp" -> SharpLabel(name)
          [] brand = "Philips" -> OledOrEmpty(name)
          [] OTHER -> ""

(***************************************************************************)
(* Post-SPD reclassification: KSF -> Pseudo QD for QLED-marketed sets.     *)
(***************************************************************************)
qled_marketing == {"QLED", "QNED", "ULED"}

ksf_mask(row) == row.color_architecture = "KSF"

\* Mutant: the mask forgets the marketing label.
marketed_as_qd_any(row) == TRUE

marketed_as_qd(row) == row.marketing_label \in qled_marketing

reclass_mask(row) == ksf_mask(row) /\ marketed_as_qd(row)

reclass_count(df) == Cardinality({i \in DOMAIN df : reclass_mask(df[i])})

\* Mutant: the pass lowers the confidence and forgets the architecture.
ReclassifyRow_confidence_only(row) == WithCol(row, "spd_confidence", "medium")

\* Mutant: the pass renames the architecture and forgets the confidence.
ReclassifyRow_architecture_only(row) == WithCol(row, "color_architecture", "Pseudo QD")

\* The two .loc assignments of the pass, on one row of the mask.
ReclassifyRow(row) ==
    WithCol(WithCol(row, "color_architecture", "Pseudo QD"), "spd_confidence", "medium")

\* Mutant: the pass does not run before the QD columns are derived.
ReclassificationPass_skipped(df) == df

\* The whole pass over a table.
ReclassificationPass(df) ==
    IF reclass_count(df) > 0
    THEN [i \in DOMAIN df |-> IF reclass_mask(df[i]) THEN ReclassifyRow(df[i]) ELSE df[i]]
    ELSE df

\* What the pass prints: (fullname, marketing_label) of the rows selected by
\* the mask.  The mask was computed before the assignments.
ReclassReport(df) ==
    LET hit == SelectSeq(df, reclass_mask)
    IN  [i \in DOMAIN hit |-> <<hit[i].fullname, hit[i].marketing_label>>]

(***************************************************************************)
(* Columns 4, 5, 6: qd_present, qd_material, spd_verified.                 *)
(***************************************************************************)
\* Mutant: Pseudo QD counts as a QD set.
qd_present_pseudo(row) ==
    IF row.color_architecture \in {"QD-LCD", "QD-OLED", "Pseudo QD"} THEN "Yes" ELSE "No"

qd_present(row) ==
    IF row.color_architecture \in {"QD-LCD", "QD-OLED"} THEN "Yes" ELSE "No"

\* Brands known to use InP.
InPBrands == {"Samsung", "Sony", "LG", "Panasonic", "Philips"}

\* Mutant: the width test is <= 28 instead of < 28.
FwhmMaterial_le(green_fwhm) ==
    IF FloatRaises(green_fwhm) THEN None
    ELSE IF PyFloat(green_fwhm).t = "float" /\ PyFloat(green_fwhm).v <= 280
         THEN "CdSe" ELSE "InP"

\* The try block of determine_qd_material: the material read off the green
\* FWHM, or None when float() raised and the except clause passed.
FwhmMaterial(green_fwhm) ==
    IF FloatRaises(green_fwhm) THEN None
    ELSE LET g_fwhm == PyFloat(green_fwhm)
         IN  \* nan < 28 is False
             IF g_fwhm.t = "float" /\ g_fwhm.v < 280 THEN "CdSe" ELSE "InP"

\* Fallback brand heuristics.
BrandFallback(brand) ==
    IF brand = "Hisense" THEN "CdSe"
    ELSE IF brand = "TCL" THEN "CdSe"
    ELSE "Unknown"

\* Mutant: the guard on color_architecture is missing.
determine_qd_material_unguarded(row) ==
    IF row.color_architecture = "QD-OLED" THEN "InP"
    ELSE IF row.brand \in InPBrands THEN "InP"
    ELSE IF FwhmMaterial(row.green_fwhm_nm) # None THEN FwhmMaterial(row.green_fwhm_nm)
    ELSE BrandFallback(row.brand)

determine_qd_material(row) ==
    LET color_arch == row.color_architecture
        green_fwhm == row.green_fwhm_nm
        brand == row.brand
    IN  IF color_arch \notin {"QD-LCD", "QD-OLED"} THEN None
        ELSE IF color_arch = "QD-OLED" THEN "InP"
        ELSE IF brand \in InPBrands THEN "InP"
        ELSE IF FwhmMaterial(green_fwhm) # None THEN FwhmMaterial(green_fwhm)
        ELSE BrandFallback(brand)

\* lambda x: 'Yes' if x and x not in ('NO_SPD_IMAGE', '')
\*                       and not str(x).startswith('ERROR') else 'No'
spd_verified(x) ==
    IF Truthy(x) /\ x \notin {"NO_SPD_IMAGE", ""} /\ ~StartsWith(PyStr(x), "ERROR")
    THEN "Yes" ELSE "No"

(***************************************************************************)
(* Output projection (build_schema, lines 273-340).                        *)
(***************************************************************************)
schema_cols ==
    <<"product_id", "fullname", "brand", "url_part", "review_url",
      "test_bench_version", "released_at", "first_published_at", "last_updated_at",
      "sizes_available",
      "display_type", "backlight_type_schema", "dimming_zone_count",
      "color_architecture", "qd_present", "qd_material", "spd_verified",
      "marketing_label",
      "panel_type", "panel_sub_type", "backlight_type",
      "spd_classification", "spd_confidence",
      "blue_peak_nm", "blue_fwhm_nm", "green_peak_nm", "green_fwhm_nm",
      "red_peak_nm", "red_fwhm_nm",
      "mixed_usage", "home_theater", "gaming", "sports", "bright_room",
      "color_score", "brightness_score", "black_level_score",
      "contrast_ratio_score", "native_contrast_score",
      "sdr_dci_p3_coverage_pct", "sdr_bt2020_coverage_pct",
      "hdr_bt2020_coverage_itp_pct",
      "sdr_real_scene_peak_nits", "sdr_peak_10pct_nits", "sdr_peak_2pct_nits",
      "hdr_peak_100pct_nits", "hdr_peak_50pct_nits", "hdr_peak_25pct_nits",
      "hdr_peak_10pct_nits", "hdr_peak_2pct_nits",
      "native_contrast", "contrast_ratio",
      "first_response_time_ms", "total_response_time_ms",
      "input_lag_1080p_ms", "input_lag_4k_ms",
      "native_refresh_rate", "vrr_support", "hdmi_forum_vrr",
      "hdmi_ports", "hdmi_21_speed", "resolution",
      "ground_truth_tech", "ground_truth_qd_type", "match_status",
      "scraped_at", "spd_image", "spd_image_local">>

\* The columns of a table (every row has the same columns).
Columns(df) == DOMAIN df[1]

\* [c for c in schema_cols if c in merged.columns]
available_cols(df) == SelectSeq(schema_cols, LAMBDA c : c \in Columns(df))

\* Mutant: the projection without the rename.
Rename_none(c) == c

\* output.rename(columns={...}) of one column name.
Rename(c) ==
    CASE c = "backlight_type_schema" -> "backlight_type_v2"
      [] c = "backlight_type" -> "backlight_type_rtings"
      [] OTHER -> c

\* The header of the output table, in order.
OutputColumns(df) == [i \in DOMAIN available_cols(df) |-> Rename(available_cols(df)[i])]

\* merged[available_cols].rename(...) of one row.
ProjectRow(row, cols) ==
    [c \in {Rename(cols[i]) : i \in DOMAIN cols} |->
        row[CHOOSE k \in SeqToSet(cols) : Rename(k) = c]]

Project(df) == [i \in DOMAIN df |-> ProjectRow(df[i], available_cols(df))]

(***************************************************************************)
(* The input tables the model explores.                                    *)
(***************************************************************************)
Brands ==
    {"Samsung", "LG", "Sony", "Hisense", "TCL", "Panasonic", "Roku", "Sharp",
     "Philips", "Vizio", NaN}

Names ==
    {"Samsung QN90D", "Samsung Q60D", "Samsung S95D OLED", "Samsung S85D OLED",
     "Samsung The Frame Pro", "Samsung The Frame", "Samsung DU8000",
     "LG G4 OLED", "LG QNED85", "LG UT7570", "Hisense CanvasTV", "TCL QM8",
     "Sharp AQUOS XLED", "Sony X90L", NaN}

\* 'MicroLED' stands for a panel_type string the mapping does not know.
PanelTypes == {"OLED", "LCD", "MicroLED", NaN}

BacklightTypes == {"Full-Array", "Direct", "Edge", "No Backlight", "Mini-LED", NaN}

\* 8294400 is the pixel count RTINGS reports for OLEDs; 12.5 is no whole number.
DimmingValues == {NumNaN, Float(1200), Float(82944000), Float(125), Str("Unknown")}

SpdClassifications ==
    {"WLED", "KSF", "Pseudo QD", "QD-LCD", "QD-OLED", "WOLED",
     "NO_SPD_IMAGE", "ERROR_NO_FIT", NaN}

Confidences == {"high", "low"}

FwhmValues == {NumNaN, Float(200), Float(279), Float(280), Str("abc")}

TvRow(pid, brand, fullname, panel, backlight, zones) ==
    [product_id |-> pid, fullname |-> fullname, brand |-> brand, sku_count |-> Float(30),
     panel_type |-> panel, backlight_type |-> backlight, dimming_zone_count |-> zones]

SpdRow(pid, class, conf, green_fwhm) ==
    [product_id |-> pid, spd_classification |-> class, spd_confidence |-> conf,
     ground_truth_tech |-> "KSF", ground_truth_qd_type |-> "CdSe",
     match_status |-> "match",
     blue_peak_nm |-> Float(4500), blue_fwhm_nm |-> Float(180),
     green_peak_nm |-> Float(5300), green_fwhm_nm |-> green_fwhm,
     red_peak_nm |-> Float(6300), red_fwhm_nm |-> Float(250), num_peaks |-> Float(30)]

\* One-row tables that vary the fields the classification rules read.
ClassRows ==
    {TvRow(1, b, n, "LCD", "Full-Array", Float(1200)) : b \in Brands, n \in Names}

\* One-row tables that vary the fields the display rules read.
DisplayRows ==
    {TvRow(1, "Sony", "Sony X90L", pt, bl, z) :
        pt \in PanelTypes, bl \in BacklightTypes, z \in DimmingValues}

WideSpdRows ==
    {SpdRow(1, c, k, g) : c \in SpdClassifications, k \in Confidences, g \in FwhmValues}

\* Spectral tables that hold one product twice, under two classifications.
TwiceClassified ==
    {<<SpdRow(1, c1, "high", Float(200)), SpdRow(1, c2, "low", Float(200))>> :
        c1 \in SpdClassifications, c2 \in SpdClassifications}

\* The columns of rtings_tv_data.csv that build_schema reads by name.
RequiredTvCols ==
    {"product_id", "fullname", "brand", "panel_type", "backlight_type",
     "dimming_zone_count"}

\* A specification table that lacks some of the columns read by name.
TvTablesLackingColumns ==
    {DropCols(<<TvRow(1, "Hisense", "Hisense CanvasTV", "LCD", "Edge", Float(1200))>>, D) :
        D \in SUBSET RequiredTvCols}

\* A spectral table that lacks at most one of the columns of spd_cols.
SpdTablesLackingColumn ==
    {<<>>, <<SpdRow(1, "KSF", "high", Float(320))>>}
    \cup {DropCols(<<SpdRow(1, "KSF", "high", Float(320))>>, {c}) : c \in SeqToSet(spd_cols)}

\* The rows of the tables of several rows.
NarrowTvRows ==
    {TvRow(pid, "Hisense", "Hisense U8N", "LCD", "Full-Array", Str("120")) :
        pid \in 1..MaxProductId}
    \cup {TvRow(pid, "Samsung", "Samsung S95D OLED", "OLED", NaN, NumNaN) :
        pid \in 1..MaxProductId}
    \cup {TvRow(pid, "LG", "LG QNED85", "LCD", "Edge", Str("Unknown")) :
        pid \in 1..MaxProductId}

NarrowSpdRows ==
    {SpdRow(pid, "KSF", "high", Str("abc")) : pid \in 1..MaxProductId}
    \cup {SpdRow(pid, "QD-LCD", "low", Str("25.0")) : pid \in 1..MaxProductId}
    \cup {SpdRow(pid, "QD-OLED", "high", Float(320)) : pid \in 1..MaxProductId}

SeqsUpTo(S, n) == UNION {[1..k -> S] : k \in 0..n}

\* Product ids are only ever compared for equality, so tv_df is explored up
\* to a renaming of the ids: its first row has id 1 and every row has an id
\* already seen or the next unused one.  spd_df ranges over all ids.
CanonicalIds(df) ==
    \A i \in DOMAIN df :
       IF "product_id" \notin DOMAIN df[i] THEN TRUE
       ELSE \/ df[i].product_id = 1
            \/ \E k \in 1..(i - 1) : df[k].product_id + 1 = df[i].product_id

\* read_csv gives a column one dtype: floats and NaN, or (when some cell is
\* no number) strings and NaN.
ColumnTyped(df, col) ==
    IF KeyError(df, {col}) THEN TRUE
    ELSE \/ \A i \in DOMAIN df : df[i][col].t \in {"float", "nan"}
         \/ /\ \A i \in DOMAIN df : df[i][col].t \in {"str", "nan"}
            /\ \E i \in DOMAIN df : df[i][col].t = "str" /\ ~Parseable(df[i][col].s)

(***************************************************************************)
(* The run of build_schema().                                              *)
(***************************************************************************)
VARIABLES
    tv_df,        \* data/rtings_tv_data.csv as read
    spd_df,       \* data/spd_analysis_results.csv as read
    merged,       \* the merged table and its derived columns
    output,       \* the projected table: its header and its rows
    reclass_log,  \* the (fullname, marketing_label) lines the pass printed
    files,        \* the output files written
    pc            \* the next statement group of build_schema()

vars == <<tv_df, spd_df, merged, output, reclass_log, files, pc>>

NoOutput == [columns |-> <<>>, rows |-> <<>>]

Init ==
    /\ \/ /\ tv_df \in {<<r>> : r \in ClassRows}
          /\ spd_df \in {<<>>} \cup {<<p>> : p \in WideSpdRows}
       \/ /\ tv_df \in {<<r>> : r \in DisplayRows}
          /\ spd_df \in {<<>>, <<SpdRow(1, "KSF", "high", Float(320))>>}
       \/ /\ tv_df \in {<<r>> : r \in ClassRows}
          /\ spd_df \in TwiceClassified
       \/ /\ tv_df \in TvTablesLackingColumns
          /\ spd_df \in SpdTablesLackingColumn
       \/ /\ tv_df \in SeqsUpTo(NarrowTvRows, MaxTvRows) \ {<<>>}
          /\ spd_df \in SeqsUpTo(NarrowSpdRows, MaxSpdRows)
    /\ CanonicalIds(tv_df)
    /\ ColumnTyped(tv_df, "dimming_zone_count")
    /\ ColumnTyped(spd_df, "green_fwhm_nm")
    /\ merged = <<>>
    /\ output = NoOutput
    /\ reclass_log = <<>>
    /\ files = {}
    /\ pc = "merge"

\* merged = tv_df.merge(spd_df[spd_cols], on='product_id', how='left')
Merge ==
    /\ pc = "merge"
    /\ IF KeyError(spd_df, SeqToSet(spd_cols)) \/ KeyError(tv_df, {"product_id"})
       THEN /\ pc' = "error"
            /\ UNCHANGED merged
       ELSE /\ merged' = LeftMerge(tv_df, spd_df)
            /\ pc' = "display_type"
    /\ UNCHANGED <<tv_df, spd_df, output, reclass_log, files>>

\* merged['display_type'] = merged['panel_type'].map({...}).fillna('LCD')
DisplayType ==
    /\ pc = "display_type"
    /\ IF KeyError(merged, {"panel_type"})
       THEN /\ pc' = "error"
            /\ UNCHANGED merged
       ELSE /\ merged' = [i \in DOMAIN merged |->
                            WithCol(merged[i], "display_type", display_type(merged[i]))]
            /\ pc' = "backlight_type"
    /\ UNCHANGED <<tv_df, spd_df, output, reclass_log, files>>

\* Mutant: the lambda reads r.get('backlight_type'), which is None, and does
\* not raise, when the table has no such column.
BacklightType_get ==
    /\ pc = "backlight_type"
    /\ IF KeyError(merged, {"panel_type"})
       THEN /\ pc' = "error"
            /\ UNCHANGED merged
       ELSE /\ merged' = [i \in DOMAIN merged |->
                            WithCol(merged[i], "backlight_type_schema",
                                    map_backlight_type(
                                        IF "backlight_type" \in DOMAIN merged[i]
                                        THEN merged[i].backlight_type ELSE None,
                                        merged[i].panel_type))]
            /\ pc' = "dimming_zone_count"
    /\ UNCHANGED <<tv_df, spd_df, output, reclass_log, files>>

\* merged['backlight_type_schema'] = merged.apply(lambda r: map_backlight_type(...))
BacklightType ==
    /\ pc = "backlight_type"
    /\ IF KeyError(merged, {"backlight_type", "panel_type"})
       THEN /\ pc' = "error"
            /\ UNCHANGED merged
       ELSE /\ merged' = [i \in DOMAIN merged |->
                            WithCol(merged[i], "backlight_type_schema",
                                    map_backlight_type(merged[i].backlight_type,
                                                       merged[i].panel_type))]
            /\ pc' = "dimming_zone_count"
    /\ UNCHANGED <<tv_df, spd_df, output, reclass_log, files>>

\* merged['dimming_zone_count'] = pd.to_numeric(..., errors='coerce').astype('Int64')
DimmingZoneCount ==
    /\ pc = "dimming_zone_count"
    /\ IF \/ KeyError(merged, {"dimming_zone_count"})
          \/ \E i \in DOMAIN merged :
                AstypeInt64Raises(ToNumeric(merged[i].dimming_zone_count))
       THEN /\ pc' = "error"
            /\ UNCHANGED merged
       ELSE /\ merged' = [i \in DOMAIN merged |->
                            WithCol(merged[i], "dimming_zone_count",
                                    dimming_zone_count(merged[i]))]
            /\ pc' = "dimming_oled_fix"
    /\ UNCHANGED <<tv_df, spd_df, output, reclass_log, files>>

\* merged.loc[merged['display_type'] == 'OLED', 'dimming_zone_count'] = pd.NA
DimmingOledFix ==
    /\ pc = "dimming_oled_fix"
    /\ merged' = [i \in DOMAIN merged |->
                    IF merged[i].display_type = "OLED"
                    THEN WithCol(merged[i], "dimming_zone_count", NA)
                    ELSE merged[i]]
    /\ pc' = "color_architecture"
    /\ UNCHANGED <<tv_df, spd_df, output, reclass_log, files>>

\* merged['color_architecture'] = merged['spd_classification']
ColorArchitecture ==
    /\ pc = "color_architecture"
    /\ merged' = [i \in DOMAIN merged |->
                    WithCol(merged[i], "color_architecture",
                            merged[i].spd_classification)]
    /\ pc' = "marketing_label"
    /\ UNCHANGED <<tv_df, spd_df, output, reclass_log, files>>

\* merged['marketing_label'] = merged.apply(determine_marketing_label, axis=1)
MarketingLabel ==
    /\ pc = "marketing_label"
    /\ IF \/ KeyError(merged, {"fullname", "brand"})
          \/ \E i \in DOMAIN merged : MarketingLabelRaises(merged[i])
       THEN /\ pc' = "error"
            /\ UNCHANGED merged
       ELSE /\ merged' = [i \in DOMAIN merged |->
                            WithCol(merged[i], "marketing_label",
                                    determine_marketing_label(merged[i]))]
            /\ pc' = "reclassify"
    /\ UNCHANGED <<tv_df, spd_df, output, reclass_log, files>>

\* The reclassification pass with its report.
Reclassify ==
    /\ pc = "reclassify"
    /\ merged' = ReclassificationPass(merged)
    /\ reclass_log' = ReclassReport(merged)
    /\ pc' = "qd_present"
    /\ UNCHANGED <<tv_df, spd_df, output, files>>

\* merged['qd_present'] = merged['color_architecture'].map(lambda x: ...)
QdPresent ==
    /\ pc = "qd_present"
    /\ merged' = [i \in DOMAIN merged |->
                    WithCol(merged[i], "qd_present", qd_present(merged[i]))]
    /\ pc' = "qd_material"
    /\ UNCHANGED <<tv_df, spd_df, output, reclass_log, files>>

\* merged['qd_material'] = merged.apply(determine_qd_material, axis=1)
QdMaterial ==
    /\ pc = "qd_material"
    /\ merged' = [i \in DOMAIN merged |->
                    WithCol(merged[i], "qd_material", determine_qd_material(merged[i]))]
    /\ pc' = "spd_verified"
    /\ UNCHANGED <<tv_df, spd_df, output, reclass_log, files>>

\* merged['spd_verified'] = merged['spd_classification'].map(lambda x: ...)
SpdVerified ==
    /\ pc = "spd_verified"
    /\ merged' = [i \in DOMAIN merged |->
                    WithCol(merged[i], "spd_verified",
                            spd_verified(merged[i].spd_classification))]
    /\ pc' = "project"
    /\ UNCHANGED <<tv_df, spd_df, output, reclass_log, files>>

\* output = merged[available_cols].copy().rename(columns={...})
ProjectOutput ==
    /\ pc = "project"
    /\ output' = [columns |-> OutputColumns(merged), rows |-> Project(merged)]
    /\ pc' = "save_csv"
    /\ UNCHANGED <<tv_df, spd_df, merged, reclass_log, files>>

\* output.to_csv(csv_out, index=False)
SaveCsv ==
    /\ pc = "save_csv"
    /\ files' = files \cup {"tv_database.csv"}
    /\ pc' = "save_xlsx"
    /\ UNCHANGED <<tv_df, spd_df, merged, output, reclass_log>>

\* output.to_excel(xlsx_out, index=False, sheet_name="TV Database")
SaveXlsx ==
    /\ pc = "save_xlsx"
    /\ files' = files \cup {"tv_database.xlsx"}
    /\ pc' = "done"
    /\ UNCHANGED <<tv_df, spd_df, merged, output, reclass_log>>

Next ==
    \/ Merge
    \/ DisplayType
    \/ BacklightType
    \/ DimmingZoneCount
    \/ DimmingOledFix
    \/ ColorArchitecture
    \/ MarketingLabel
    \/ Reclassify
    \/ QdPresent
    \/ QdMaterial
    \/ SpdVerified
    \/ ProjectOutput
    \/ SaveCsv
    \/ SaveXlsx

Spec == Init /\ [][Next]_vars

(***************************************************************************)
(* Properties.                                                             *)
(***************************************************************************)
\* The merged table as it was right after the merge: the raw input of the
\* derivation stages.  The stages never add, drop or reorder rows.
Raw == LeftMerge(tv_df, spd_df)

\* The run has passed the reclassification pass.
AfterReclassify ==
    pc \in {"qd_present", "qd_material", "spd_verified", "project",
            "save_csv", "save_xlsx", "done"}

\* The output table has been built.
Projected == pc \in {"save_csv", "save_xlsx", "done"}

HasCol(col) == merged # <<>> /\ col \in DOMAIN merged[1]

\* C1: after the reclassification pass, a row whose raw spd_classification is
\* 'KSF' and whose marketing_label is QLED, QNED or ULED has color_architecture
\* 'Pseudo QD' and spd_confidence 'medium'; every other row keeps the raw
\* spd_classification as color_architecture and its merged spd_confidence.
C1_Reclassification ==
    LET raw == Raw
    IN  /\ AfterReclassify =>
             \A i \in DOMAIN merged :
                IF raw[i].spd_classification = "KSF"
                   /\ merged[i].marketing_label \in {"QLED", "QNED", "ULED"}
                THEN /\ merged[i].color_architecture = "Pseudo QD"
                     /\ merged[i].spd_confidence = "medium"
                ELSE /\ merged[i].color_architecture = raw[i].spd_classification
                     /\ merged[i].spd_confidence = raw[i].spd_confidence
        /\ Projected =>
             \A i \in DOMAIN output.rows :
                IF output.rows[i].spd_classification = "KSF"
                   /\ output.rows[i].marketing_label \in {"QLED", "QNED", "ULED"}
                THEN /\ output.rows[i].color_architecture = "Pseudo QD"
                     /\ output.rows[i].spd_confidence = "medium"
                ELSE /\ output.rows[i].color_architecture
                          = output.rows[i].spd_classification
                     /\ output.rows[i].spd_confidence = raw[i].spd_confidence

\* A finished run with one row reclassified (its confidence was not 'medium'
\* before) and one KSF row, with another marketing label, left as KSF.
C1_Witness ==
    /\ pc = "done"
    /\ \E i \in DOMAIN output.rows :
          /\ output.rows[i].spd_classification = "KSF"
          /\ output.rows[i].color_architecture = "Pseudo QD"
          /\ Raw[i].spd_confidence = "high"
          /\ output.rows[i].spd_confidence = "medium"
    /\ \E i \in DOMAIN output.rows :
          /\ output.rows[i].spd_classification = "KSF"
          /\ output.rows[i].marketing_label \notin {"QLED", "QNED", "ULED"}
          /\ output.rows[i].color_architecture = "KSF"

\* C2: marketing_label is derived before the reclassification pass and
\* qd_present and qd_material after it, so both are computed from the
\* reclassified color_architecture: a row with raw classification KSF and
\* marketing_label QLED ends with color_architecture 'Pseudo QD',
\* spd_confidence 'medium', qd_present 'No' and no qd_material.
C2_StageOrder ==
    /\ pc = "reclassify" =>
         /\ HasCol("marketing_label")
         /\ ~HasCol("qd_present")
         /\ ~HasCol("qd_material")
    /\ (HasCol("qd_present") \/ HasCol("qd_material")) =>
         /\ HasCol("marketing_label")
         /\ \A i \in DOMAIN merged :
               (merged[i].spd_classification = "KSF" /\ merged[i].marketing_label = "QLED")
                  => merged[i].color_architecture = "Pseudo QD"
    /\ HasCol("qd_present") =>
         \A i \in DOMAIN merged :
            merged[i].color_architecture = "Pseudo QD" => merged[i].qd_present = "No"
    /\ HasCol("qd_material") =>
         \A i \in DOMAIN merged :
            merged[i].color_architecture = "Pseudo QD" => merged[i].qd_material = None
    /\ Projected =>
         \A i \in DOMAIN output.rows :
            (output.rows[i].spd_classification = "KSF"
             /\ output.rows[i].marketing_label = "QLED")
               => /\ output.rows[i].color_architecture = "Pseudo QD"
                  /\ output.rows[i].spd_confidence = "medium"
                  /\ output.rows[i].qd_present = "No"
                  /\ output.rows[i].qd_material = None

\* A finished run whose row had raw classification KSF and label QLED.
C2_Witness ==
    /\ pc = "done"
    /\ \E i \in DOMAIN output.rows :
          /\ output.rows[i].spd_classification = "KSF"
          /\ output.rows[i].marketing_label = "QLED"
          /\ output.rows[i].color_architecture = "Pseudo QD"
          /\ output.rows[i].qd_present = "No"

\* C3: in every output row qd_present is 'Yes' exactly when the final
\* color_architecture is 'QD-LCD' or 'QD-OLED', and 'No' otherwise (a null
\* or sentinel color_architecture included).
C3_QdPresent ==
    Projected =>
       \A i \in DOMAIN output.rows :
          /\ output.rows[i].qd_present \in {"Yes", "No"}
          /\ output.rows[i].qd_present = "Yes"
                <=> output.rows[i].color_architecture \in {"QD-LCD", "QD-OLED"}

\* A finished run with a QD row (Yes) and a row without spectral data (No).
C3_Witness ==
    /\ pc = "done"
    /\ \E i \in DOMAIN output.rows :
          /\ output.rows[i].color_architecture = "QD-OLED"
          /\ output.rows[i].qd_present = "Yes"
    /\ \E i \in DOMAIN output.rows :
          /\ output.rows[i].color_architecture = NaN
          /\ output.rows[i].qd_present = "No"

\* C4: in every output row a qd_material that is not null implies
\* qd_present = 'Yes', and qd_present = 'No' implies a null qd_material.
C4_QdMaterialNeedsQd ==
    Projected =>
       \A i \in DOMAIN output.rows :
          /\ ~IsNull(output.rows[i].qd_material) => output.rows[i].qd_present = "Yes"
          /\ output.rows[i].qd_present = "No" => IsNull(output.rows[i].qd_material)

\* A finished run with a row that has a material and an LG row, of a brand
\* with a known material, that is no QD set and has none.
C4_Witness ==
    /\ pc = "done"
    /\ \E i \in DOMAIN output.rows :
          /\ output.rows[i].qd_material = "CdSe"
          /\ output.rows[i].qd_present = "Yes"
    /\ \E i \in DOMAIN output.rows :
          /\ output.rows[i].brand = "LG"
          /\ output.rows[i].qd_present = "No"
          /\ output.rows[i].qd_material = None

\* C5: in every output row with display_type = 'OLED' the schema backlight
\* type (backlight_type_v2) is null and dimming_zone_count is null, whatever
\* the raw backlight_type and dimming_zone_count were.
C5_OledHasNoBacklight ==
    Projected =>
       \A i \in DOMAIN output.rows :
          output.rows[i].display_type = "OLED"
             => /\ IsNull(output.rows[i].backlight_type_v2)
                /\ output.rows[i].dimming_zone_count = NA

\* A finished run of an OLED row whose raw backlight string has a mapping
\* and whose raw dimming_zone_count was the pixel count 8294400.
C5_Witness ==
    /\ pc = "done"
    /\ \E i \in DOMAIN output.rows :
          /\ output.rows[i].display_type = "OLED"
          /\ output.rows[i].backlight_type_rtings = "Full-Array"
          /\ Raw[i].dimming_zone_count = Float(82944000)
          /\ output.rows[i].dimming_zone_count = NA

\* C6: in every output row spd_verified is 'Yes' exactly when the raw
\* spd_classification is a non-empty value (not null, not the empty string)
\* other than 'NO_SPD_IMAGE' that does not start with 'ERROR', and 'No'
\* otherwise; a row without a match in the spectral table gets 'No'.
C6_SpdVerifiedFromRaw ==
    Projected =>
       \A i \in DOMAIN output.rows :
          LET x == output.rows[i].spd_classification
              verified == /\ x # NaN
                          /\ x # ""
                          /\ x # "NO_SPD_IMAGE"
                          /\ ~StartsWith(x, "ERROR")
          IN  output.rows[i].spd_verified = IF verified THEN "Yes" ELSE "No"

\* C7: for a QD-LCD row of a brand outside {Samsung, Sony, LG, Panasonic,
\* Philips} whose green_fwhm_nm is missing or unparseable, qd_material is
\* 'CdSe' for Hisense, 'CdSe' for TCL and 'Unknown' for any other brand.
C7_MissingFwhmFallsBackToBrand ==
    Projected =>
       \A i \in DOMAIN output.rows :
          LET row == output.rows[i]
              g == row.green_fwhm_nm
          IN  (/\ row.color_architecture = "QD-LCD"
               /\ row.brand \notin {"Samsung", "Sony", "LG", "Panasonic", "Philips"}
               /\ (g.t = "nan" \/ g = Str("abc")))
                 => row.qd_material =
                       IF row.brand \in {"Hisense", "TCL"} THEN "CdSe" ELSE "Unknown"

\* The part of C7 the code does implement: an unparseable green_fwhm_nm
\* falls back to the brand heuristic.
C7_UnparseableFallsBack ==
    Projected =>
       \A i \in DOMAIN output.rows :
          LET row == output.rows[i]
          IN  (/\ row.color_architecture = "QD-LCD"
               /\ row.brand \notin {"Samsung", "Sony", "LG", "Panasonic", "Philips"}
               /\ row.green_fwhm_nm = Str("abc"))
                 => row.qd_material =
                       IF row.brand \in {"Hisense", "TCL"} THEN "CdSe" ELSE "Unknown"

\* The green FWHM of a row in tenths of a nanometre, for the numeric cells
\* of the explored tables.
WidthTenths(g) == IF g.t = "float" THEN g.v ELSE IF g = Str("25.0") THEN 250 ELSE -1

IsNumericWidth(g) == g.t = "float" \/ g = Str("25.0")

\* C8: determine_qd_material applies its rules in this order: a
\* color_architecture outside {QD-LCD, QD-OLED} gives null; QD-OLED gives
\* 'InP' for every brand; QD-LCD of Samsung, Sony, LG, Panasonic or Philips
\* gives 'InP' for every FWHM; QD-LCD of another brand with a numeric
\* green_fwhm_nm gives 'CdSe' below 28 nm and 'InP' from 28 nm on.
C8_QdMaterialPrecedence ==
    Projected =>
       \A i \in DOMAIN output.rows :
          LET row == output.rows[i]
              g == row.green_fwhm_nm
          IN  /\ row.color_architecture \notin {"QD-LCD", "QD-OLED"}
                    => row.qd_material = None
              /\ row.color_architecture = "QD-OLED" => row.qd_material = "InP"
              /\ (/\ row.color_architecture = "QD-LCD"
                  /\ row.brand \in {"Samsung", "Sony", "LG", "Panasonic", "Philips"})
                    => row.qd_material = "InP"
              /\ (/\ row.color_architecture = "QD-LCD"
                  /\ row.brand \notin {"Samsung", "Sony", "LG", "Panasonic", "Philips"}
                  /\ IsNumericWidth(g))
                    => row.qd_material = IF WidthTenths(g) < 280 THEN "CdSe" ELSE "InP"

\* A finished run of a Samsung QD-LCD row with a narrow green peak: the
\* brand rule wins over the width.
C8_Witness ==
    /\ pc = "done"
    /\ \E i \in DOMAIN output.rows :
          /\ output.rows[i].color_architecture = "QD-LCD"
          /\ output.rows[i].brand = "Samsung"
          /\ output.rows[i].green_fwhm_nm = Float(200)
          /\ output.rows[i].qd_material = "InP"

\* A finished run of a Hisense QD-LCD row with a green peak of exactly 28 nm.
C8_WitnessBoundary ==
    /\ pc = "done"
    /\ \E i \in DOMAIN output.rows :
          /\ output.rows[i].color_architecture = "QD-LCD"
          /\ output.rows[i].brand = "Hisense"
          /\ output.rows[i].green_fwhm_nm = Float(280)
          /\ output.rows[i].qd_material = "InP"

\* The number of rows of the spectral table with this product_id.
MatchCount(pid) == Cardinality({j \in DOMAIN spd_df : spd_df[j].product_id = pid})

SpectralCols == SeqToSet(spd_cols) \ {"product_id"}

\* Row m of the merged table is row t of tv_df with nulls in the spectral columns.
IsNullFilled(m, t) ==
    /\ \A c \in DOMAIN t : m[c] = t[c]
    /\ \A c \in SpectralCols :
          IF c \in spd_numeric_cols THEN m[c] = NumNaN ELSE m[c] = NaN

\* Row m of the merged table is row t of tv_df joined with row p of spd_df.
IsJoinOf(m, t, p) ==
    /\ p.product_id = t.product_id
    /\ \A c \in DOMAIN t : m[c] = t[c]
    /\ \A c \in SpectralCols : m[c] = p[c]

RECURSIVE RowsOfLeftJoin(_)
\* The number of rows a left join gives for the first k rows of tv_df.
RowsOfLeftJoin(k) ==
    IF k = 0 THEN 0
    ELSE RowsOfLeftJoin(k - 1)
           + (IF MatchCount(tv_df[k].product_id) = 0 THEN 1
              ELSE MatchCount(tv_df[k].product_id))

\* C9 as stated: whatever the spectral table holds (a product_id occurring
\* twice included), the merge gives exactly one row per row of tv_df, with
\* nulls in the spectral columns of a row without a match, and no row for a
\* spectral row whose product_id is not in tv_df.
C9_OneRowPerTvRow ==
    pc = "display_type" =>
       /\ Len(merged) = Len(tv_df)
       /\ \A i \in DOMAIN merged :
             /\ i \in DOMAIN tv_df
             /\ \A c \in DOMAIN tv_df[i] : merged[i][c] = tv_df[i][c]
             /\ MatchCount(tv_df[i].product_id) = 0 => IsNullFilled(merged[i], tv_df[i])

\* C9 as amended: the merge gives, for each row of tv_df, one row per row of
\* spd_df with the same product_id and a single null-filled row when there
\* is none; a spectral row whose product_id is not in tv_df gives no row.
\* When no product_id occurs twice in spd_df that is exactly one row per
\* row of tv_df, in the order of tv_df.
C9_LeftJoin ==
    /\ merged # <<>> => Len(merged) = RowsOfLeftJoin(Len(tv_df))
    /\ Projected => Len(output.rows) = RowsOfLeftJoin(Len(tv_df))
    /\ pc = "display_type" =>
          /\ \A k \in DOMAIN merged : \E i \in DOMAIN tv_df :
                IF MatchCount(tv_df[i].product_id) = 0
                THEN IsNullFilled(merged[k], tv_df[i])
                ELSE \E j \in DOMAIN spd_df : IsJoinOf(merged[k], tv_df[i], spd_df[j])
          /\ \A i \in DOMAIN tv_df :
                IF MatchCount(tv_df[i].product_id) = 0
                THEN \E k \in DOMAIN merged : IsNullFilled(merged[k], tv_df[i])
                ELSE \A j \in DOMAIN spd_df :
                        spd_df[j].product_id = tv_df[i].product_id
                           => \E k \in DOMAIN merged :
                                 IsJoinOf(merged[k], tv_df[i], spd_df[j])
          /\ (\A i \in DOMAIN tv_df : MatchCount(tv_df[i].product_id) <= 1)
                => /\ Len(merged) = Len(tv_df)
                   /\ \A i \in DOMAIN tv_df : \A c \in DOMAIN tv_df[i] :
                         merged[i][c] = tv_df[i][c]

\* Right after the merge: a product_id that occurs twice in spd_df has given
\* two rows, a row of tv_df without a match one null-filled row.
C9_Witness ==
    /\ pc = "display_type"
    /\ Len(merged) > Len(tv_df)
    /\ \E i \in DOMAIN tv_df : MatchCount(tv_df[i].product_id) = 2
    /\ \E i \in DOMAIN tv_df :
          /\ MatchCount(tv_df[i].product_id) = 0
          /\ \E k \in DOMAIN merged : IsNullFilled(merged[k], tv_df[i])

\* C10: after the reclassification pass no row satisfies its condition
\* (color_architecture = 'KSF' and marketing_label in {QLED, QNED, ULED}),
\* and a second application of the pass changes no row: color_architecture
\* and spd_confidence are the same after two passes as after one.
C10_ReclassifyIdempotent ==
    AfterReclassify =>
       LET twice == ReclassificationPass(merged)
       IN  /\ \A i \in DOMAIN merged :
                 ~(/\ merged[i].color_architecture = "KSF"
                   /\ merged[i].marketing_label \in {"QLED", "QNED", "ULED"})
           /\ Len(twice) = Len(merged)
           /\ \A i \in DOMAIN merged :
                 /\ twice[i].color_architecture = merged[i].color_architecture
                 /\ twice[i].spd_confidence = merged[i].spd_confidence
           /\ twice = merged
           /\ ReclassReport(merged) = <<>>

\* The pass has just run and has reclassified a row.
C10_Witness ==
    /\ pc = "qd_present"
    /\ reclass_log # <<>>
    /\ \E i \in DOMAIN merged :
          /\ Raw[i].spd_classification = "KSF"
          /\ merged[i].color_architecture = "Pseudo QD"

\* The taxonomy of color_architecture the schema names.
ColorArchitectures == {"WLED", "KSF", "Pseudo QD", "QD-LCD", "QD-OLED", "WOLED"}

\* C11: in every output row the final color_architecture is one of WLED, KSF,
\* Pseudo QD, QD-LCD, QD-OLED and WOLED, whatever the raw spd_classification
\* was: a taxonomy label, the sentinel 'NO_SPD_IMAGE', an 'ERROR...' string or
\* the null of a row without a match in the spectral table.
C11_ColorArchitectureInTaxonomy ==
    Projected =>
       \A i \in DOMAIN output.rows :
          output.rows[i].color_architecture \in ColorArchitectures

\* C12: in every output row display_type is 'OLED' exactly when the raw
\* panel_type is 'OLED' and 'LCD' for every other panel_type, null and
\* unrecognised strings included; it is never null and never 'MicroLED'.
C12_DisplayType ==
    /\ HasCol("display_type") =>
          \A i \in DOMAIN merged :
             merged[i].display_type
                = IF merged[i].panel_type = "OLED" THEN "OLED" ELSE "LCD"
    /\ Projected =>
          \A i \in DOMAIN output.rows :
             /\ output.rows[i].display_type \in {"OLED", "LCD"}
             /\ output.rows[i].display_type = "OLED"
                   <=> output.rows[i].panel_type = "OLED"

\* A finished run whose row has a null or an unrecognised panel_type and the
\* display_type 'LCD'.
C12_Witness ==
    /\ pc = "done"
    /\ \E i \in DOMAIN output.rows :
          /\ output.rows[i].panel_type \in {NaN, "MicroLED"}
          /\ output.rows[i].display_type = "LCD"

\* The two tests determine_marketing_label makes on color_architecture.
SameArchTests(c1, c2) ==
    /\ c1 = "QD-OLED" <=> c2 = "QD-OLED"
    /\ c1 \in {"QD-LCD", "KSF", "Pseudo QD"} <=> c2 \in {"QD-LCD", "KSF", "Pseudo QD"}

\* C13 as stated: marketing_label is a function of brand and fullname only;
\* two merged rows with the same brand and the same fullname have the same
\* marketing_label even when their spd_classification differs.
C13_LabelFromBrandAndName ==
    HasCol("marketing_label") =>
       \A i, j \in DOMAIN merged :
          merged[i].brand = merged[j].brand /\ merged[i].fullname = merged[j].fullname
             => merged[i].marketing_label = merged[j].marketing_label

\* C13, amended: marketing_label is a function of brand, fullname and the raw
\* spd_classification.  Two merged rows with the same brand and fullname have
\* the same label when the brand is not Samsung, Sony or Hisense, and also
\* when their classifications agree on being 'QD-OLED' and on being one of
\* QD-LCD, KSF, Pseudo QD.
C13_LabelFromBrandNameAndArch ==
    HasCol("marketing_label") =>
       \A i, j \in DOMAIN merged :
          /\ merged[i].brand = merged[j].brand
          /\ merged[i].fullname = merged[j].fullname
          /\ \/ merged[i].brand \notin {"Samsung", "Sony", "Hisense"}
             \/ SameArchTests(merged[i].spd_classification,
                              merged[j].spd_classification)
          => merged[i].marketing_label = merged[j].marketing_label

\* Two merged rows of one Hisense product classified KSF and QD-LCD: the
\* classifications differ, agree on both tests, and the rows share the label.
C13_Witness ==
    /\ HasCol("marketing_label")
    /\ Len(merged) = 2
    /\ merged[1].brand = "Hisense"
    /\ merged[1].spd_classification = "KSF"
    /\ merged[2].spd_classification = "QD-LCD"
    /\ merged[1].marketing_label = "QLED"
    /\ merged[2].marketing_label = "QLED"

\* An LG pair classified QD-OLED and KSF, both labelled from the name.
C13_WitnessLG ==
    /\ HasCol("marketing_label")
    /\ Len(merged) = 2
    /\ merged[1].brand = "LG"
    /\ merged[1].spd_classification = "QD-OLED"
    /\ merged[2].spd_classification = "KSF"
    /\ merged[1].marketing_label = "QNED"
    /\ merged[2].marketing_label = "QNED"

\* Column c is missing from the specification table / from the spectral table.
MissingTv(c) == c \notin DOMAIN tv_df[1]

MissingSpd(c) == spd_df # <<>> /\ c \notin DOMAIN spd_df[1]

\* Some column of the input contract is missing.
MissingRequired ==
    \/ \E c \in RequiredTvCols : MissingTv(c)
    \/ \E c \in SeqToSet(spd_cols) : MissingSpd(c)

\* The derived columns the merged table has by now.
DerivedCols ==
    IF merged = <<>> THEN {}
    ELSE DOMAIN merged[1] \cap {"display_type", "backlight_type_schema",
                                "color_architecture", "marketing_label",
                                "qd_present", "qd_material", "spd_verified"}

\* No output file exists and none is about to be written.
NothingWritten ==
    /\ files = {}
    /\ output = NoOutput
    /\ pc \notin {"save_csv", "save_xlsx", "done"}

\* C14 as stated: when a required column is missing from either input
\* table, build_schema ends in an error before any derivation step has run
\* and before any output file is written.
C14_FailsBeforeAnyDerivation ==
    MissingRequired =>
       /\ NothingWritten
       /\ DerivedCols = {}
       /\ ~ENABLED Next => pc = "error"

\* C14, amended: when a required column is missing, build_schema ends in an
\* error before any output file is written.  The error is raised by the
\* first statement that reads the column: the merge for a spectral column or
\* product_id and the display_type derivation for panel_type, before any
\* derivation has run; the backlight derivation for backlight_type, after
\* display_type was derived; the dimming derivation for dimming_zone_count,
\* after display_type and the backlight column; the marketing_label
\* derivation for fullname and brand, after display_type, the backlight
\* column, the dimming columns and color_architecture.
C14_FailsBeforeOutput ==
    MissingRequired =>
       /\ NothingWritten
       /\ ~ENABLED Next => pc = "error"
       /\ DerivedCols \subseteq {"display_type", "backlight_type_schema", "color_architecture"}
       /\ MissingTv("dimming_zone_count") =>
             DerivedCols \subseteq {"display_type", "backlight_type_schema"}
       /\ MissingTv("backlight_type") => DerivedCols \subseteq {"display_type"}
       /\ \/ MissingTv("product_id")
          \/ MissingTv("panel_type")
          \/ \E c \in SeqToSet(spd_cols) : MissingSpd(c)
          => DerivedCols = {}
       /\ MissingTv("product_id") \/ (\E c \in SeqToSet(spd_cols) : MissingSpd(c))
          => merged = <<>>

\* A run over a table without the brand column that has ended in the error
\* of the marketing_label derivation, after three derivations and with no
\* file written.
C14_Witness ==
    /\ pc = "error"
    /\ MissingTv("brand")
    /\ DerivedCols = {"display_type", "backlight_type_schema", "color_architecture"}
    /\ files = {}

\* A run over a spectral table without num_peaks that has ended in the error
\* of the merge.
C14_WitnessMerge ==
    /\ pc = "error"
    /\ MissingSpd("num_peaks")
    /\ merged = <<>>
    /\ files = {}

\* The name a merged column is expected to carry in the output.
OutName(c) ==
    IF c = "backlight_type_schema" THEN "backlight_type_v2"
    ELSE IF c = "backlight_type" THEN "backlight_type_rtings"
    ELSE c

\* The place in schema_cols of the column with output name x.
SchemaPosition(x) == CHOOSE a \in DOMAIN schema_cols : OutName(schema_cols[a]) = x

\* C15 as stated: the projection keeps every column of the merged table:
\* the columns of schema_cols first, in the list's order and renamed, and
\* every other merged column appended after them.
C15_NoMergedColumnLost ==
    Projected =>
       LET cols == output.columns
           listed == SeqToSet(schema_cols)
       IN  /\ \A c \in DOMAIN merged[1] : \E i \in DOMAIN cols : cols[i] = OutName(c)
           /\ \A c \in DOMAIN merged[1] \ listed, d \in DOMAIN merged[1] \cap listed :
                 \A i, j \in DOMAIN cols :
                    cols[i] = OutName(c) /\ cols[j] = OutName(d) => j < i

\* C15, amended: the projection keeps exactly the merged columns that are
\* named in schema_cols, in that list's order, with backlight_type_schema and
\* backlight_type renamed to backlight_type_v2 and backlight_type_rtings and
\* with the values of the merged table; a listed column the merged table
\* lacks is omitted, and a merged column the list does not name is dropped.
C15_ProjectionKeepsListedColumns ==
    Projected =>
       LET cols == output.columns
           kept == {c \in SeqToSet(schema_cols) : c \in DOMAIN merged[1]}
       IN  /\ SeqToSet(cols) = {OutName(c) : c \in kept}
           /\ Len(cols) = Cardinality(kept)
           /\ \A i \in 1..(Len(cols) - 1) :
                 SchemaPosition(cols[i]) < SchemaPosition(cols[i + 1])
           /\ Len(output.rows) = Len(merged)
           /\ \A k \in DOMAIN output.rows :
                 /\ DOMAIN output.rows[k] = SeqToSet(cols)
                 /\ \A c \in kept : output.rows[k][OutName(c)] = merged[k][c]
           /\ \A c \in DOMAIN merged[1] \ SeqToSet(schema_cols) :
                 \A i \in DOMAIN cols : cols[i] # c

\* A finished run whose output starts with product_id, carries the two
\* renamed backlight columns and lacks the merged columns num_peaks and
\* sku_count, which schema_cols does not name.
C15_Witness ==
    /\ pc = "done"
    /\ {"num_peaks", "sku_count"} \subseteq DOMAIN merged[1]
    /\ output.columns[1] = "product_id"
    /\ \E i, j \in DOMAIN output.columns :
          /\ output.columns[i] = "backlight_type_rtings"
          /\ output.columns[j] = "backlight_type_v2"
    /\ \A i \in DOMAIN output.columns :
          output.columns[i] \notin {"num_peaks", "sku_count"}
    /\ \A k \in DOMAIN output.rows :
          {"num_peaks", "sku_count"} \cap DOMAIN output.rows[k] = {}

\* C16 as stated: every output row whose final color_architecture is
\* 'Pseudo QD' has spd_confidence 'medium' and a marketing_label among QLED,
\* QNED and ULED, whatever the raw spd_classification was, a raw 'Pseudo QD'
\* included.
C16_PseudoQdIsMediumAndQledMarketed ==
    Projected =>
       \A i \in DOMAIN output.rows :
          output.rows[i].color_architecture = "Pseudo QD"
             => /\ output.rows[i].spd_confidence = "medium"
                /\ output.rows[i].marketing_label \in {"QLED", "QNED", "ULED"}

\* C16, amended: an output row whose final color_architecture is 'Pseudo QD'
\* either has the raw spd_classification 'KSF', and then spd_confidence
\* 'medium' and a marketing_label among QLED, QNED and ULED, or has the raw
\* spd_classification 'Pseudo QD', and then the spd_confidence of the
\* spectral table.
C16_PseudoQdFromKsfIsMedium ==
    Projected =>
       LET raw == Raw
       IN  \A i \in DOMAIN output.rows :
              output.rows[i].color_architecture = "Pseudo QD"
                 => IF output.rows[i].spd_classification = "KSF"
                    THEN /\ output.rows[i].spd_confidence = "medium"
                         /\ output.rows[i].marketing_label \in {"QLED", "QNED", "ULED"}
                    ELSE /\ output.rows[i].spd_classification = "Pseudo QD"
                         /\ output.rows[i].spd_confidence = raw[i].spd_confidence

\* A finished run over two spectral rows of one product: the row classified
\* 'Pseudo QD' by the spectral table keeps its confidence 'high', the row
\* classified 'KSF' has become 'Pseudo QD' with confidence 'medium'.
C16_Witness ==
    /\ pc = "done"
    /\ Len(output.rows) = 2
    /\ output.rows[1].spd_classification = "Pseudo QD"
    /\ output.rows[1].color_architecture = "Pseudo QD"
    /\ output.rows[1].spd_confidence = "high"
    /\ output.rows[2].spd_classification = "KSF"
    /\ output.rows[2].color_architecture = "Pseudo QD"
    /\ output.rows[2].spd_confidence = "medium"
    /\ output.rows[2].marketing_label \in {"QLED", "QNED", "ULED"}

\* C17: marketing_label is stable under reclassification: on every row,
\* determine_marketing_label called after the pass, with the
\* color_architecture the pass left, does not raise and returns the label
\* computed before the pass; so the pass selects the same rows whether the
\* label is computed before or after it.
C17_LabelStableUnderReclassification ==
    AfterReclassify =>
       \A i \in DOMAIN merged :
          /\ ~MarketingLabelRaises(merged[i])
          /\ determine_marketing_label(merged[i]) = merged[i].marketing_label
          /\ (merged[i].spd_classification = "KSF"
                 /\ determine_marketing_label(merged[i]) \in qled_marketing)
             <=> (merged[i].spd_classification = "KSF"
                    /\ merged[i].color_architecture = "Pseudo QD")

\* A run past the pass with a Hisense row that was labelled QLED as 'KSF'
\* and is now 'Pseudo QD'.
C17_Witness ==
    /\ pc = "qd_present"
    /\ \E i \in DOMAIN merged :
          /\ merged[i].brand = "Hisense"
          /\ merged[i].spd_classification = "KSF"
          /\ merged[i].color_architecture = "Pseudo QD"
          /\ merged[i].marketing_label = "QLED"

====
